---- MODULE Spec2Model ----
(***************************************************************************)
(* Model of validate_email_links.py: the EmailLinkParser callbacks driven  *)
(* by HTMLParser.feed, and main()'s checks over the extracted links and    *)
(* the raw document text.                                                  *)
(*                                                                         *)
(* A Python str is a sequence of one-character strings.  A slot that holds *)
(* "str or None" holds such a sequence or NoneStr; the current_link slot   *)
(* holds a link record or None.                                            *)
(***************************************************************************)
EXTENDS Naturals, Sequences, FiniteSets

VARIABLES
    email_links,      \* parser.email_links: sequence of link records
    current_link,     \* parser.current_link: a link record or None
    in_link,          \* parser.in_link
    events,           \* history: the events feed() has dispatched so far
    lineno,           \* HTMLParser's line counter, getpos()[0]
    pc,               \* "feed" | "error" (parser) ; "loop" | "test6" | "done" (main)
    html_content,     \* main: the raw document text
    idx,              \* main: 1-based position of the for loop in email_links
    all_tests_passed, \* main: the verdict
    report,           \* main: the values printed for each link, in order
    duplicate_tags,   \* main: result of check_duplicate_tags
    malformed         \* main: result of the malformed-mailto findall

vars == <<email_links, current_link, in_link, events, lineno, pc,
          html_content, idx, all_tests_passed, report, duplicate_tags, malformed>>

parserVars == <<email_links, current_link, in_link, events, lineno>>
mainVars == <<html_content, idx, all_tests_passed, report, duplicate_tags, malformed>>

-----------------------------------------------------------------------------
(* Bounds *)

MaxEvents == 5
MaxLinks == 2
MaxDocPieces == 3
MaxHrefPieces == 5

-----------------------------------------------------------------------------
(* Python values *)

None == [none |-> TRUE]
NoneStr == <<"None">>

MAILTO == <<"m", "a", "i", "l", "t", "o", ":">>
MCKENZIE == <<"m", "c", "k", "e", "n", "z", "i", "e", "s", "t", "u", "d", "i", "o", "s">>
AT == <<"@">>
CLOSE_A == <<"<", "/", "a", ">">>

Lower == {"a", "b", "c", "d", "e", "f", "g", "h", "i", "j", "k", "l", "m",
          "n", "o", "p", "q", "r", "s", "t", "u", "v", "w", "x", "y", "z"}
Upper == {"A", "B", "C", "D", "E", "F", "G", "H", "I", "J", "K", "L", "M",
          "N", "O", "P", "Q", "R", "S", "T", "U", "V", "W", "X", "Y", "Z"}
Digits == {"0", "1", "2", "3", "4", "5", "6", "7", "8", "9"}
Letters == Lower \cup Upper
\* [a-zA-Z0-9._%+-]
LocalChars == Letters \cup Digits \cup {".", "_", "%", "+", "-"}
\* [a-zA-Z0-9.-]
DomainChars == Letters \cup Digits \cup {".", "-"}
\* \s and str.strip() whitespace
Whitespace == {" ", "\t", "\n", "\r"}

startswith(s, prefix) ==
    /\ Len(s) >= Len(prefix)
    /\ SubSeq(s, 1, Len(prefix)) = prefix

\* sub in s
Contains(s, sub) ==
    \E i \in 1..(Len(s) + 1) :
        /\ i + Len(sub) - 1 <= Len(s)
        /\ SubSeq(s, i, i + Len(sub) - 1) = sub

RECURSIVE lstrip(_)
lstrip(s) ==
    IF s # <<>> /\ Head(s) \in Whitespace THEN lstrip(Tail(s)) ELSE s

RECURSIVE rstrip(_)
rstrip(s) ==
    IF s # <<>> /\ s[Len(s)] \in Whitespace THEN rstrip(SubSeq(s, 1, Len(s) - 1)) ELSE s

lstrip_only(s) == lstrip(s)

\* str.strip()
strip(s) == rstrip(lstrip(s))

\* number of line breaks in a chunk of consumed text (HTMLParser.updatepos)
Newlines(s) == Cardinality({i \in 1..Len(s) : s[i] = "\n"})

-----------------------------------------------------------------------------
(* EmailLinkParser *)

\* dict(attrs): a later pair of the same name replaces an earlier one
dict(attrs) ==
    [k \in {attrs[j][1] : j \in 1..Len(attrs)} |->
        LET last == CHOOSE j \in 1..Len(attrs) :
                        /\ attrs[j][1] = k
                        /\ \A m \in (j + 1)..Len(attrs) : attrs[m][1] # k
        IN attrs[last][2]]

\* attrs_dict.get('class', '')
GetClass(attrs_dict) ==
    IF "class" \in DOMAIN attrs_dict THEN attrs_dict["class"] ELSE <<>>

\* the dict literal of handle_starttag; pos is a history field (the index of
\* the start-tag event that opened the link), read by the properties only
NewLink(attrs_dict, line, pos) ==
    [href |-> attrs_dict["href"],
     class |-> GetClass(attrs_dict),
     text |-> <<>>,
     line_num |-> line,
     pos |-> pos]

IsAnchor_anytag(tag) == TRUE

\* tag == 'a'
IsAnchor(tag) == tag = "a"

prepend(list, x) == <<x>> \o list

\* list.append
append(list, x) == Append(list, x)

handle_starttag_flush(tag, attrs) ==
    IF IsAnchor(tag)
    THEN LET attrs_dict == dict(attrs) IN
         IF "href" \in DOMAIN attrs_dict
         THEN IF attrs_dict["href"] = NoneStr
              THEN /\ pc' = "error"
                   /\ UNCHANGED <<email_links, current_link, in_link>>
              ELSE IF startswith(attrs_dict["href"], MAILTO)
                   THEN /\ email_links' = (IF in_link /\ current_link # None
                                           THEN append(email_links, current_link)
                                           ELSE email_links)
                        /\ current_link' = NewLink(attrs_dict, lineno, Len(events) + 1)
                        /\ in_link' = TRUE
                        /\ UNCHANGED pc
                   ELSE UNCHANGED <<email_links, current_link, in_link, pc>>
         ELSE UNCHANGED <<email_links, current_link, in_link, pc>>
    ELSE UNCHANGED <<email_links, current_link, in_link, pc>>

handle_starttag(tag, attrs) ==
    IF IsAnchor(tag)
    THEN LET attrs_dict == dict(attrs) IN
         IF "href" \in DOMAIN attrs_dict
         THEN IF attrs_dict["href"] = NoneStr
              THEN \* None.startswith raises AttributeError out of feed()
                   /\ pc' = "error"
                   /\ UNCHANGED <<email_links, current_link, in_link>>
              ELSE IF startswith(attrs_dict["href"], MAILTO)
                   THEN /\ current_link' = NewLink(attrs_dict, lineno, Len(events) + 1)
                        /\ in_link' = TRUE
                        /\ UNCHANGED <<email_links, pc>>
                   ELSE UNCHANGED <<email_links, current_link, in_link, pc>>
         ELSE UNCHANGED <<email_links, current_link, in_link, pc>>
    ELSE UNCHANGED <<email_links, current_link, in_link, pc>>

handle_endtag_unguarded(tag) ==
    IF tag = "a"
    THEN /\ email_links' = append(email_links, current_link)
         /\ current_link' = None
         /\ in_link' = FALSE
         /\ UNCHANGED pc
    ELSE UNCHANGED <<email_links, current_link, in_link, pc>>

handle_endtag(tag) ==
    IF tag = "a" /\ in_link
    THEN /\ IF current_link # None
            THEN /\ email_links' = append(email_links, current_link)
                 /\ current_link' = None
            ELSE UNCHANGED <<email_links, current_link>>
         /\ in_link' = FALSE
         /\ UNCHANGED pc
    ELSE UNCHANGED <<email_links, current_link, in_link, pc>>

handle_data(data) ==
    IF in_link /\ current_link # None
    THEN /\ current_link' = [current_link EXCEPT !.text = @ \o strip(data)]
         /\ UNCHANGED <<email_links, in_link, pc>>
    ELSE UNCHANGED <<email_links, current_link, in_link, pc>>

-----------------------------------------------------------------------------
(* The events HTMLParser.feed dispatches *)

Tags == {"a", "b"}

HREF_X == MAILTO \o <<"x">>
HREF_Y == MAILTO \o <<"y">>
HREF_HASH == <<"#">>

\* attribute lists of an <a> start-tag: attributes missing, repeated, without
\* a value
AnchorAttrs ==
    { <<>>,
      << <<"class", <<"c">> >>, <<"href", HREF_X>> >>,
      << <<"href", HREF_HASH>>, <<"href", HREF_Y>> >>,
      << <<"href", NoneStr>> >>,
      << <<"href", HREF_HASH>> >>,
      << <<"class", NoneStr>>, <<"href", HREF_X>> >> }

OtherAttrs == { << <<"class", <<"c">> >>, <<"href", HREF_X>> >> }

AttrsOf(tag) == IF tag = "a" THEN AnchorAttrs ELSE OtherAttrs

DataChunks == { <<" ", "h", " ", "i">>, <<"x", "\n">> }

StartEvent(tag, attrs) == [kind |-> "start", tag |-> tag, attrs |-> attrs, data |-> <<>>]
EndEvent(tag) == [kind |-> "end", tag |-> tag, attrs |-> <<>>, data |-> <<>>]
DataEvent(data) == [kind |-> "data", tag |-> "", attrs |-> <<>>, data |-> data]

Feeding == pc = "feed" /\ Len(events) < MaxEvents

StartTag ==
    /\ Feeding
    /\ \E tag \in Tags : \E attrs \in AttrsOf(tag) :
        /\ handle_starttag(tag, attrs)
        /\ events' = Append(events, StartEvent(tag, attrs))
    /\ UNCHANGED lineno
    /\ UNCHANGED mainVars

EndTag ==
    /\ Feeding
    /\ \E tag \in Tags :
        /\ handle_endtag(tag)
        /\ events' = Append(events, EndEvent(tag))
    /\ UNCHANGED lineno
    /\ UNCHANGED mainVars

Data ==
    /\ Feeding
    /\ \E data \in DataChunks :
        /\ handle_data(data)
        /\ events' = Append(events, DataEvent(data))
        /\ lineno' = lineno + Newlines(data)
    /\ UNCHANGED mainVars

\* EmailLinkParser.__init__; main's variables are not in play
Init ==
    /\ email_links = <<>>
    /\ current_link = None
    /\ in_link = FALSE
    /\ events = <<>>
    /\ lineno = 1
    /\ pc = "feed"
    /\ html_content = <<>>
    /\ idx = 1
    /\ all_tests_passed = TRUE
    /\ report = <<>>
    /\ duplicate_tags = <<>>
    /\ malformed = <<>>

Next == StartTag \/ EndTag \/ Data

Spec == Init /\ [][Next]_vars

-----------------------------------------------------------------------------
(* main(): the checks *)

\* str.replace(old, new): every non-overlapping occurrence, left to right
RECURSIVE replace(_, _, _)
replace(s, old, new) ==
    IF Len(s) < Len(old) THEN s
    ELSE IF SubSeq(s, 1, Len(old)) = old
         THEN new \o replace(SubSeq(s, Len(old) + 1, Len(s)), old, new)
         ELSE <<Head(s)>> \o replace(Tail(s), old, new)

\* str.split(sep): the pieces between all occurrences of sep
RECURSIVE split(_, _)
split(s, sep) ==
    LET hits == {i \in 1..Len(s) : /\ i + Len(sep) - 1 <= Len(s)
                                   /\ SubSeq(s, i, i + Len(sep) - 1) = sep}
    IN IF hits = {} THEN <<s>>
       ELSE LET i == CHOOSE h \in hits : \A g \in hits : h <= g
            IN <<SubSeq(s, 1, i - 1)>> \o split(SubSeq(s, i + Len(sep), Len(s)), sep)

\* re.match(r'^[a-zA-Z0-9._%+-]+@[a-zA-Z0-9.-]+\.[a-zA-Z]{2,}$', email) is not None.
\* at is the '@', dot the '\.', end the last character of the match; '$'
\* matches at the end of the string and just before a line break that ends it.
validate_email_format(email) ==
    LET n == Len(email)
        ends == {n} \cup (IF n >= 1 /\ email[n] = "\n" THEN {n - 1} ELSE {})
    IN \E at \in 1..n : \E dot \in 1..n : \E end \in ends :
        /\ email[at] = "@"
        /\ at >= 2
        /\ \A k \in 1..(at - 1) : email[k] \in LocalChars
        /\ dot >= at + 2
        /\ \A k \in (at + 1)..(dot - 1) : email[k] \in DomainChars
        /\ email[dot] = "."
        /\ end >= dot + 2
        /\ \A k \in (dot + 1)..end : email[k] \in Letters

\* s[p:].startswith(lit)
StartsAt(s, p, lit) ==
    /\ p + Len(lit) - 1 <= Len(s)
    /\ SubSeq(s, p, p + Len(lit) - 1) = lit

\* the position after the run of \s characters that starts at q
RECURSIVE SkipWs(_, _)
SkipWs(s, q) ==
    IF q <= Len(s) /\ s[q] \in Whitespace THEN SkipWs(s, q + 1) ELSE q

\* where a match of </a>\s*</a> starting at p ends (0: none starts at p)
DupMatchEnd(s, p) ==
    IF StartsAt(s, p, CLOSE_A)
    THEN LET q == SkipWs(s, p + Len(CLOSE_A))
         IN IF StartsAt(s, q, CLOSE_A) THEN q + Len(CLOSE_A) - 1 ELSE 0
    ELSE 0

\* where a match of mailto:\s+[^\s] starting at p ends (0: none starts at p)
MalformedMatchEnd(s, p) ==
    IF StartsAt(s, p, MAILTO)
    THEN LET q == SkipWs(s, p + Len(MAILTO))
         IN IF q > p + Len(MAILTO) /\ q <= Len(s) THEN q ELSE 0
    ELSE 0

\* re.findall: the non-overlapping matches, scanning left to right
RECURSIVE FindDup(_, _)
FindDup(s, p) ==
    IF p > Len(s) THEN <<>>
    ELSE LET e == DupMatchEnd(s, p)
         IN IF e > 0 THEN <<SubSeq(s, p, e)>> \o FindDup(s, e + 1)
            ELSE FindDup(s, p + 1)

RECURSIVE FindMalformed(_, _)
FindMalformed(s, p) ==
    IF p > Len(s) THEN <<>>
    ELSE LET e == MalformedMatchEnd(s, p)
         IN IF e > 0 THEN <<SubSeq(s, p, e)>> \o FindMalformed(s, e + 1)
            ELSE FindMalformed(s, p + 1)

check_duplicate_tags(content) == FindDup(content, 1)

\* re.findall(r'mailto:\s+[^\s]', html_content)
find_malformed(content) == FindMalformed(content, 1)

\* email = link['href'].replace('mailto:', '')
email_of(link) == replace(link.href, MAILTO, <<>>)

\* text_matches = (link['text'] == email)
text_matches_of(link, email) == link.text = email

\* has_class = bool(link['class'])
has_class_of(link) == link.class # NoneStr /\ link.class # <<>>

\* domain = email.split('@')[1] if '@' in email else ''
domain_of(email) == IF Contains(email, AT) THEN split(email, AT)[2] ELSE <<>>

\* is_mckenzie = 'mckenziestudios' in domain
is_mckenzie_of(domain) == Contains(domain, MCKENZIE)

AfterLinkTests_overwrite(passed, is_valid, text_matches) == is_valid /\ text_matches

\* the two "if not ...: all_tests_passed = False" of the loop body
AfterLinkTests(passed, is_valid, text_matches) ==
    IF ~is_valid THEN FALSE
    ELSE IF ~text_matches THEN FALSE
    ELSE passed

\* one pass of "for i, link in enumerate(parser.email_links, 1)"
TestLink ==
    /\ pc = "loop"
    /\ idx <= Len(email_links)
    /\ LET link == email_links[idx]
           email == email_of(link)
           is_valid == validate_email_format(email)
           text_matches == text_matches_of(link, email)
           has_class == has_class_of(link)
           domain == domain_of(email)
           is_mckenzie == is_mckenzie_of(domain)
       IN /\ all_tests_passed' = AfterLinkTests(all_tests_passed, is_valid, text_matches)
          /\ report' = Append(report, [href |-> link.href,
                                       text |-> link.text,
                                       email |-> email,
                                       is_valid |-> is_valid,
                                       text_matches |-> text_matches,
                                       has_class |-> has_class,
                                       domain |-> domain,
                                       is_mckenzie |-> is_mckenzie])
    /\ idx' = idx + 1
    /\ UNCHANGED <<pc, html_content, duplicate_tags, malformed>>
    /\ UNCHANGED parserVars

\* Test 5, after the loop
Test5 ==
    /\ pc = "loop"
    /\ idx > Len(email_links)
    /\ duplicate_tags' = check_duplicate_tags(html_content)
    /\ all_tests_passed' = (IF duplicate_tags' # <<>> THEN FALSE ELSE all_tests_passed)
    /\ pc' = "test6"
    /\ UNCHANGED <<html_content, idx, report, malformed>>
    /\ UNCHANGED parserVars

\* Test 6
Test6 ==
    /\ pc = "test6"
    /\ malformed' = find_malformed(html_content)
    /\ all_tests_passed' = (IF malformed' # <<>> THEN FALSE ELSE all_tests_passed)
    /\ pc' = "done"
    /\ UNCHANGED <<html_content, idx, report, duplicate_tags>>
    /\ UNCHANGED parserVars

NextMain == TestLink \/ Test5 \/ Test6

-----------------------------------------------------------------------------
(* Inputs of main() *)

RECURSIVE Flatten(_)
Flatten(ss) == IF ss = <<>> THEN <<>> ELSE Head(ss) \o Flatten(Tail(ss))

\* the strings made of at most n pieces
Joined(pieces, n) ==
    {Flatten(ps) : ps \in UNION {[1..m -> pieces] : m \in 0..n}}

CHAT_MCKENZIE == <<"c", "h", "a", "t", "@">> \o MCKENZIE \o <<".", "a", "i">>
C_AT_C_AI == <<"c", "@", "c", ".", "a", "i">>
C_AT_C == <<"c", "@", "c">>
EMAIL_US == <<"E", "m", "a", "i", "l", " ", "U", "s">>

AfterPrefix(href) == SubSeq(href, Len(MAILTO) + 1, Len(href))

\* a record as the extractor leaves it: href starts with mailto:, text has no
\* surrounding whitespace
LinkOf(href, text, class, n) ==
    [href |-> href, class |-> class, text |-> text, line_num |-> n, pos |-> n]

\* valid or invalid address, mckenziestudios domain or not, text equal to the
\* address or not, with and without a class
LinkInputs ==
    {LinkOf(MAILTO \o e, t, <<"c">>, 1) :
        e \in {CHAT_MCKENZIE, C_AT_C_AI, C_AT_C},
        t \in {CHAT_MCKENZIE, C_AT_C_AI}}
    \cup {LinkOf(MAILTO \o e, e, <<>>, 1) : e \in {CHAT_MCKENZIE, C_AT_C_AI}}

\* at most MaxLinks records, in document order
LinkSeqs ==
    {[i \in 1..Len(ls) |-> [ls[i] EXCEPT !.pos = i, !.line_num = i]] :
        ls \in UNION {[1..m -> LinkInputs] : m \in 0..MaxLinks}}

DocPieces == {CLOSE_A, <<" ">>, MAILTO}

MainStart ==
    /\ current_link = None
    /\ in_link = FALSE
    /\ events = <<>>
    /\ lineno = 1
    /\ pc = "loop"
    /\ idx = 1
    /\ all_tests_passed = TRUE
    /\ report = <<>>
    /\ duplicate_tags = <<>>
    /\ malformed = <<>>

\* main() after parser.feed: any extracted links, any raw text
InitMain ==
    /\ email_links \in LinkSeqs
    /\ html_content \in Joined(DocPieces, MaxDocPieces)
    /\ MainStart

SpecMain == InitMain /\ [][NextMain]_vars

HrefPieces ==
    {<<"c">>, AT, <<".">>, <<".", "a", "i">>, <<"\n">>, <<" ">>, MCKENZIE, MAILTO}

\* main() on one link whose href is any string after the mailto: prefix
InitChecks ==
    /\ \E rest \in Joined(HrefPieces, MaxHrefPieces) :
       \E text \in {strip(rest), EMAIL_US} :
           email_links = <<LinkOf(MAILTO \o rest, text, <<"c">>, 1)>>
    /\ html_content = <<>>
    /\ MainStart

SpecChecks == InitChecks /\ [][NextMain]_vars

-----------------------------------------------------------------------------
(* Reading the event history *)

IsAStart(e) == e.kind = "start" /\ e.tag = "a"
IsAEnd(e) == e.kind = "end" /\ e.tag = "a"

\* e is an <a> start-tag whose href attribute (the value the attribute mapping
\* gives: the last href pair) has a value starting with mailto:
MailtoAnchor(e) ==
    /\ IsAStart(e)
    /\ \E j \in 1..Len(e.attrs) :
        /\ e.attrs[j][1] = "href"
        /\ \A m \in (j + 1)..Len(e.attrs) : e.attrs[m][1] # "href"
        /\ e.attrs[j][2] # NoneStr
        /\ Len(e.attrs[j][2]) >= 7
        /\ \A c \in 1..7 : e.attrs[j][2][c] = MAILTO[c]

\* each <a> start-tag is followed by a </a> end-tag before the next <a> start-tag
WellFormed(ev) ==
    \A p \in 1..Len(ev) :
        IsAStart(ev[p]) =>
            \E c \in (p + 1)..Len(ev) :
                /\ IsAEnd(ev[c])
                /\ \A q \in (p + 1)..(c - 1) : ~IsAStart(ev[q])

\* the first </a> end-tag after position p (Len(ev) + 1 when there is none)
CloseOf(ev, p) ==
    LET ends == {c \in (p + 1)..Len(ev) : IsAEnd(ev[c])}
    IN IF ends = {} THEN Len(ev) + 1
       ELSE CHOOSE c \in ends : \A d \in ends : c <= d

\* s without its leading and trailing whitespace, stated by position
Stripped(s) ==
    LET solid == {k \in 1..Len(s) : s[k] \notin Whitespace}
    IN IF solid = {} THEN <<>>
       ELSE LET lo == CHOOSE k \in solid : \A m \in solid : k <= m
                hi == CHOOSE k \in solid : \A m \in solid : k >= m
            IN [k \in 1..(hi - lo + 1) |-> s[lo + k - 1]]

\* the stripped text-data chunks at positions p+1 .. c-1, joined in order
RECURSIVE ChunkText(_, _, _)
ChunkText(ev, p, c) ==
    IF p + 1 >= c THEN <<>>
    ELSE ChunkText(ev, p, c - 1) \o
         (IF ev[c - 1].kind = "data" THEN Stripped(ev[c - 1].data) ELSE <<>>)

\* the event the last step dispatched
Dispatched == Len(events') = Len(events) + 1
LastEvent == events'[Len(events')]

LinkOpen == in_link /\ current_link # None

\* mailto start-tags that a later mailto start-tag followed with no </a> between
Overwritten(ev) ==
    {p \in 1..Len(ev) :
        /\ MailtoAnchor(ev[p])
        /\ \E q \in (p + 1)..Len(ev) :
            /\ MailtoAnchor(ev[q])
            /\ \A k \in (p + 1)..(q - 1) : ~IsAEnd(ev[k])}

\* mailto start-tags that any later <a> start-tag followed with no </a> between
Interrupted(ev) ==
    {p \in 1..Len(ev) :
        /\ MailtoAnchor(ev[p])
        /\ \E q \in (p + 1)..Len(ev) :
            /\ IsAStart(ev[q])
            /\ \A k \in (p + 1)..(q - 1) : ~IsAEnd(ev[k])}

-----------------------------------------------------------------------------
(* Claims about the extractor *)

\* C2: once feed() has consumed a well-formed document without raising, the
\* number of records equals the number of <a> start-tags whose href value
\* starts with mailto: ; other anchors add none.
C2_CountMatchesMailtoAnchors ==
    (pc = "feed" /\ WellFormed(events)) =>
        Len(email_links) = Cardinality({k \in 1..Len(events) : MailtoAnchor(events[k])})

C2_Witness ==
    /\ pc = "feed"
    /\ WellFormed(events)
    /\ Len(email_links) >= 1
    /\ \E k \in 1..Len(events) : IsAStart(events[k]) /\ ~MailtoAnchor(events[k])

\* each record's opening start-tag is a mailto anchor of the history and comes
\* before the next record's
C3_InOrder ==
    /\ \A i \in 1..Len(email_links) :
        /\ email_links[i].pos \in 1..Len(events)
        /\ MailtoAnchor(events[email_links[i].pos])
        /\ email_links[i].href = dict(events[email_links[i].pos].attrs)["href"]
    /\ \A i \in 1..(Len(email_links) - 1) :
        email_links[i].pos < email_links[i + 1].pos

\* a step leaves email_links alone or adds one record at its end
C3_GrowsAtEnd ==
    \/ email_links' = email_links
    \/ /\ Len(email_links') = Len(email_links) + 1
       /\ SubSeq(email_links', 1, Len(email_links)) = email_links

\* C3: after any sequence of events the records of email_links are in
\* document order (the start-tag that opened record i comes before the one
\* that opened record i+1), and email_links only grows by appending at its end.
C3_DocumentOrder == [](C3_InOrder) /\ [][C3_GrowsAtEnd]_vars

C3_Witness == Len(email_links) >= 2

\* C7 (as claimed): no handler raises, whatever the tag names and attribute
\* lists of the events.
C7_HandlersComplete == pc # "error"

\* C8 (as claimed): a link that was open when any second <a> start-tag
\* arrived is never appended to email_links.
C8_AnySecondStartLosesLink ==
    \A i \in 1..Len(email_links) : email_links[i].pos \notin Interrupted(events)

\* a mailto start-tag arriving while a link is open puts a fresh record with
\* empty text in the slot and leaves email_links alone
C8_SlotOverwritten ==
    (Dispatched /\ MailtoAnchor(LastEvent) /\ LinkOpen) =>
        /\ current_link' # None
        /\ current_link'.pos = Len(events')
        /\ current_link'.text = <<>>
        /\ email_links' = email_links

\* no emitted record was opened by an overwritten start-tag, and its text is
\* only what came after its own start-tag
C8_LostForGood ==
    \A i \in 1..Len(email_links) :
        /\ email_links[i].pos \notin Overwritten(events)
        /\ email_links[i].text =
               ChunkText(events, email_links[i].pos, CloseOf(events, email_links[i].pos))

\* C8 (amended): a second <a> start-tag whose href starts with mailto:,
\* arriving while a link is open, overwrites the current-link slot; the
\* previously open link is lost (never appended by any later event), and text
\* seen before the second start-tag is part of no emitted record.
C8_MailtoSecondStartLosesLink == [](C8_LostForGood) /\ [][C8_SlotOverwritten]_vars

C8_Witness ==
    \E i \in 1..Len(email_links) :
        /\ email_links[i].text # <<>>
        /\ \E p \in Overwritten(events) :
            /\ p < email_links[i].pos
            /\ \A k \in (p + 1)..(email_links[i].pos - 1) : ~IsAEnd(events[k])
            /\ \E k \in (p + 1)..(email_links[i].pos - 1) : events[k].kind = "data"

\* the text of each record, and of the open link, read off the history
C9_TextOfRecords ==
    /\ \A i \in 1..Len(email_links) :
        email_links[i].text =
            ChunkText(events, email_links[i].pos, CloseOf(events, email_links[i].pos))
    /\ LinkOpen =>
        current_link.text = ChunkText(events, current_link.pos, Len(events) + 1)

\* text-data while no link is open changes no field of the parser
C9_DataOutsideLink ==
    (Dispatched /\ LastEvent.kind = "data" /\ ~LinkOpen) =>
        UNCHANGED <<email_links, current_link, in_link>>

\* C9: an emitted record's text is the concatenation, in document order, of
\* the whitespace-stripped text-data chunks between the start-tag that opened
\* it and the </a> that closed it, other tags in between notwithstanding;
\* text-data while no link is open changes nothing.
C9_TextIsStrippedConcat == [](C9_TextOfRecords) /\ [][C9_DataOutsideLink]_vars

C9_Witness ==
    \E i \in 1..Len(email_links) :
        /\ email_links[i].text = <<"h", " ", "i", "x">>
        /\ \E k \in (email_links[i].pos + 1)..Len(events) :
            /\ events[k].kind = "start"
            /\ events[k].tag = "b"
            /\ k < CloseOf(events, email_links[i].pos)

\* what one step may do to email_links and the slot
C10_Step ==
    /\ \A i \in 1..Len(email_links) :
        /\ i <= Len(email_links')
        /\ email_links'[i] = email_links[i]
    /\ (Dispatched /\ IsAEnd(LastEvent) /\ LinkOpen) =>
        /\ email_links' = Append(email_links, current_link)
        /\ current_link' = None
        /\ ~in_link'
    /\ (Dispatched /\ IsAEnd(LastEvent) /\ ~LinkOpen) =>
        email_links' = email_links

\* C10: </a> with a link open appends the finished record and clears the
\* slot; </a> with no link open leaves email_links unchanged; no event ever
\* changes a record already in email_links.
C10_ClosedRecordsImmutable == [][C10_Step]_vars

C10_Witness ==
    /\ Len(email_links) = 1
    /\ LinkOpen
    /\ current_link.text # <<>>
    /\ \E k \in 1..(email_links[1].pos - 1) : IsAEnd(events[k])

-----------------------------------------------------------------------------
(* Claims about main() *)

\* C1: when main() is done, all_tests_passed is true exactly when every link
\* passed the format and the text-match check and neither document-level
\* search found a match; has_class and is_mckenzie play no part.
C1_VerdictIsConjunction ==
    pc = "done" =>
        (all_tests_passed <=>
            /\ Len(report) = Len(email_links)
            /\ \A k \in 1..Len(report) : report[k].is_valid /\ report[k].text_matches
            /\ duplicate_tags = <<>>
            /\ malformed = <<>>)

C1_Witness ==
    /\ pc = "done"
    /\ all_tests_passed
    /\ Len(report) = 2
    /\ \E k \in 1..Len(report) : ~report[k].has_class /\ ~report[k].is_mckenzie

\* the shape of C4 on the whole string s, first character to last
FullShape(s) ==
    \E at \in 1..Len(s) : \E dot \in 1..Len(s) :
        /\ s[at] = "@"
        /\ at >= 2
        /\ \A k \in 1..(at - 1) : s[k] \in LocalChars
        /\ dot >= at + 2
        /\ \A k \in (at + 1)..(dot - 1) : s[k] \in DomainChars
        /\ s[dot] = "."
        /\ Len(s) >= dot + 2
        /\ \A k \in (dot + 1)..Len(s) : s[k] \in Letters

\* C4 (as claimed): the format check passes iff the whole candidate string
\* has the shape, with no extra character anywhere, a line break at the end
\* included.
C4_WholeStringMatch ==
    \A k \in 1..Len(report) : report[k].is_valid <=> FullShape(report[k].email)

\* C5 (as claimed): the candidate email is href without its leading mailto:
\* prefix and otherwise unchanged, and the text-match check passes iff the
\* link text equals that candidate.
C5_OnlyPrefixRemoved ==
    \A k \in 1..Len(report) :
        /\ report[k].email = AfterPrefix(report[k].href)
        /\ report[k].text_matches <=> (report[k].text = AfterPrefix(report[k].href))

\* everything after the first '@' of s, the empty string when there is none
AfterFirstAt(s) ==
    LET ats == {i \in 1..Len(s) : s[i] = "@"}
    IN IF ats = {} THEN <<>>
       ELSE LET first == CHOOSE i \in ats : \A j \in ats : i <= j
            IN SubSeq(s, first + 1, Len(s))

\* C6 (as claimed): the domain is everything after the first '@' of the
\* candidate, also with several '@', and the domain check passes iff that
\* contains mckenziestudios.
C6_DomainAfterFirstAt ==
    \A k \in 1..Len(report) :
        /\ report[k].domain = AfterFirstAt(report[k].email)
        /\ report[k].is_mckenzie <=> Contains(AfterFirstAt(report[k].email), MCKENZIE)

====
